---- MODULE Spec2Model ----
(***************************************************************************)
(* Model of the four retirement projections of src/app.py and the shared   *)
(* annual-to-monthly rate conversion.                                       *)
(*                                                                          *)
(* Numbers.  Python floats are modelled by exact rationals <<n, d>> in      *)
(* lowest terms with d > 0.  A value that is not a real number (the         *)
(* complex result of a negative base raised to 1/12, and everything         *)
(* computed from it) is the single value NotReal; the inputs hold only one  *)
(* annual rate below -100, so two such rates are equal exactly when their   *)
(* annual inputs are.  Annual rates are drawn from those whose growth       *)
(* factor 1 + a/100 is a 12th power of a small rational, so that the        *)
(* monthly rate is rational and the conversion is computed, not assumed.    *)
(***************************************************************************)
EXTENDS Integers, Sequences, FiniteSets, TLC

\* ------------------------------------------------------------- arithmetic

Abs(x) == IF x < 0 THEN -x ELSE x

RECURSIVE GCD(_, _)
GCD(a, b) == IF b = 0 THEN a ELSE GCD(b, a % b)

\* Values that are not real numbers carry only whether they are zero.
NotReal == <<1, 0>>

ComplexZero == <<0, 0>>

IsReal(x) == x[2] # 0

IsZero(x) == x[1] = 0

Norm(n, d) ==
    LET g == GCD(Abs(n), Abs(d))
        s == IF d < 0 THEN -1 ELSE 1
    IN  <<s * (n \div g), s * (d \div g)>>

Rat(i) == <<i, 1>>

Zero == Rat(0)

One == Rat(1)

Mul(a, b) ==
    IF IsReal(a) /\ IsReal(b)
    THEN LET g1 == GCD(Abs(a[1]), b[2])
             g2 == GCD(Abs(b[1]), a[2])
         IN  <<(a[1] \div g1) * (b[1] \div g2), (a[2] \div g2) * (b[2] \div g1)>>
    ELSE IF IsZero(a) \/ IsZero(b) THEN ComplexZero ELSE NotReal

\* A sum with a summand that is not real is not real; it is zero only when
\* both summands are (the complex values of the code have an imaginary
\* part, which no real summand cancels).
Add(a, b) ==
    IF IsReal(a) /\ IsReal(b)
    THEN LET g == GCD(a[2], b[2])
         IN  Norm(a[1] * (b[2] \div g) + b[1] * (a[2] \div g), (a[2] \div g) * b[2])
    ELSE IF IsZero(a) /\ IsZero(b) THEN ComplexZero ELSE NotReal

Neg(a) == IF IsReal(a) THEN <<-a[1], a[2]>> ELSE a

Sub(a, b) == Add(a, Neg(b))

\* Python raises ZeroDivisionError for a zero divisor, real or complex: the
\* callers test DivRaises first.
DivRaises(b) == IsZero(b)

\* a / b for b # 0.
Div(a, b) ==
    IF IsReal(a) /\ IsReal(b)
    THEN Mul(a, Norm(b[2], b[1]))
    ELSE IF IsZero(a) THEN ComplexZero ELSE NotReal

\* a < b on reals (Python raises TypeError when either is complex: the
\* callers test CmpRaises first).
Lt(a, b) == a[1] * b[2] < b[1] * a[2]

Le(a, b) == a[1] * b[2] <= b[1] * a[2]

CmpRaises(a, b) == ~IsReal(a) \/ ~IsReal(b)

\* Python's min(a, b): b if b < a else a.
Min(a, b) == IF Lt(b, a) THEN b ELSE a

\* Python's max(a, b): b if b > a else a.
Max(a, b) == IF Lt(a, b) THEN b ELSE a

RECURSIVE PowNat(_, _)
PowNat(x, n) ==
    IF n = 0 THEN One
    ELSE LET h == PowNat(x, n \div 2)
             sq == Mul(h, h)
         IN  IF n % 2 = 0 THEN sq ELSE Mul(x, sq)

\* x ** n for an integer n (0 ** negative raises ZeroDivisionError).
Pow(x, n) == IF n >= 0 THEN PowNat(x, n) ELSE Div(One, PowNat(x, -n))

PowRaises(x, n) == n < 0 /\ IsZero(x)

RECURSIVE IntPow(_, _)
IntPow(b, n) == IF n = 0 THEN 1 ELSE b * IntPow(b, n - 1)

\* Mutant: the quotient rounded down.
CeilTruncated(a, b) == a \div b

\* math.ceil(a / b) for integers a and b > 0.
Ceil(a, b) == -((-a) \div b)

\* ---------------------------------------------------------- rate converter

\* The largest numerator or denominator of a monthly growth factor.
MaxRoot == 4

\* x ** (1/12) for an integer x that is a 12th power.
Root12(x) == CHOOSE y \in 0..MaxRoot : IntPow(y, 12) = x

\* (1 + annual_rate / 100) ** (1/12) - 1; a negative base gives a complex
\* number in Python.
convert_annual_to_monthly_rate(annual_rate) ==
    LET base == Add(One, Div(annual_rate, Rat(100)))
    IN  IF base[1] < 0 THEN NotReal
        ELSE Sub(<<Root12(base[1]), Root12(base[2])>>, One)

\* The annual percentage whose monthly growth factor is p/q.
Annual(p, q) == Norm(100 * (IntPow(p, 12) - IntPow(q, 12)), IntPow(q, 12))

\* ------------------------------------------------------------------ state

VARIABLES
    pc,                 \* "idle", a projector's loop, "returned" or "raised"
    exc,                \* the exception a raised call ended with
    args,               \* the call's arguments (args.fn names the projector)
    monthly_return,
    monthly_inflation,
    monthly_stepup,
    total_months,
    monthly_withdrawal,
    current_corpus,
    current_withdrawal,
    current_sip,
    month,
    data,               \* the rows appended so far
    ret                 \* the scalar returned beside the rows

vars == <<pc, exc, args, monthly_return, monthly_inflation, monthly_stepup,
          total_months, monthly_withdrawal, current_corpus, current_withdrawal,
          current_sip, month, data, ret>>

locals == <<monthly_return, monthly_inflation, monthly_stepup, total_months,
            monthly_withdrawal, current_corpus, current_withdrawal, current_sip,
            month, data>>

Init ==
    /\ pc = "idle"
    /\ exc = ""
    /\ args = [fn |-> "none"]
    /\ monthly_return = Zero
    /\ monthly_inflation = Zero
    /\ monthly_stepup = Zero
    /\ total_months = 0
    /\ monthly_withdrawal = Zero
    /\ current_corpus = Zero
    /\ current_withdrawal = Zero
    /\ current_sip = Zero
    /\ month = 0
    /\ data = <<>>
    /\ ret = Zero

\* An exception leaves the function: nothing is returned.
Raise(e) ==
    /\ pc' = "raised"
    /\ exc' = e

\* ----------------------------------------------------------------- inputs

MaxCorpus == 3

MaxYears == 3

\* Annual rates (percent): monthly growth factors 1, 2, 1/2 and 3/2, the
\* rate -100 (monthly factor 0) and the rate -200 (a negative base).
RateZero == Annual(1, 1)

RateDouble == Annual(2, 1)

RateHalve == Annual(1, 2)

RateHalf == Annual(3, 2)

RateMinus100 == Annual(0, 1)

RateMinus200 == Rat(-200)

Corpora == -1..MaxCorpus

\* Runs longer than 24 months are taken at a zero return only, and the
\* factors 1/2 and 3/2 for 12 months only: the balances of the others
\* leave the range of the integers the rationals are made of.
CorpusToWithdrawalArgs ==
    { [fn |-> "corpus_to_monthly_withdrawal", starting_corpus |-> c,
       annual_return |-> r, annual_inflation |-> g, years |-> y] :
        c \in Corpora,
        r \in {RateZero, RateDouble, RateHalve, RateHalf, RateMinus100, RateMinus200},
        g \in {RateZero, RateDouble, RateHalve, RateHalf, RateMinus100, RateMinus200},
        y \in -1..MaxYears }

CorpusToWithdrawalFits(a) ==
    \/ /\ a.years <= 1
       /\ \/ RateHalf \notin {a.annual_return, a.annual_inflation}
          \/ {a.annual_return, a.annual_inflation}
                 \subseteq {RateHalf, RateZero, RateMinus100, RateMinus200}
    \/ /\ a.years <= 2
       /\ {a.annual_return, a.annual_inflation}
              \subseteq {RateZero, RateDouble, RateMinus100, RateMinus200}
    \/ a.annual_return = RateZero /\ a.annual_inflation \in {RateZero, RateMinus100}

MaxWithdrawal == 3

\* Runs that never deplete are taken where the balance stays constant (the
\* withdrawal equals the month's return, or stops after the first month at
\* a zero return), and for the smallest such amounts; a balance that grows
\* or shrinks geometrically for 1200 months leaves the range of the
\* integers.
WithdrawalToDurationArgs ==
    { [fn |-> "withdrawal_to_corpus_duration", starting_corpus |-> c,
       monthly_withdrawal |-> w, annual_return |-> r, annual_inflation |-> g] :
        c \in Corpora,
        w \in 1..MaxWithdrawal,
        r \in {RateZero, RateDouble, RateHalve, RateHalf, RateMinus100, RateMinus200},
        g \in {RateZero, RateDouble, RateHalve, RateMinus100, RateMinus200} }

WithdrawalToDurationFits(a) ==
    LET c == a.starting_corpus
        w == a.monthly_withdrawal
        r == a.annual_return
        g == a.annual_inflation
    IN  \/ c <= 0
        \/ r \in {RateMinus100, RateMinus200}
        \/ g = RateMinus200
        \/ g \in {RateZero, RateDouble} /\ r \in {RateZero, RateHalve}
        \/ g = RateDouble /\ r = RateDouble /\ w >= c
        \/ g = RateDouble /\ r = RateHalf /\ 2 * w >= c
        \/ g = RateZero /\ r = RateDouble /\ (w > c \/ (w = 1 /\ c = 1))
        \/ g = RateZero /\ r = RateHalf /\ (2 * w > c \/ (w = 1 /\ c = 2))
        \/ g = RateMinus100 /\ r = RateZero /\ (w >= c \/ w = 1)
        \/ g = RateMinus100 /\ r = RateDouble /\ w >= 2 * c
        \/ g = RateMinus100 /\ r = RateHalf /\ 2 * w >= 3 * c
        \/ g = RateMinus100 /\ r = RateHalve /\ 2 * w >= c
        \/ g = RateHalve /\ r = RateHalve
        \/ g = RateHalve /\ r = RateZero /\ 2 * w > c

MaxSip == 2

\* A step-up factor of 4096 or 1/4096 is taken for two years, a monthly
\* return factor of 2 or 1/2 for two years and of 3/2 for one, and both
\* together for one.
SavingsToCorpusArgs ==
    { [fn |-> "monthly_savings_to_corpus", monthly_sip |-> p, annual_stepup |-> s,
       years_to_retirement |-> y, annual_return |-> r] :
        p \in -1..MaxSip,
        s \in {RateZero, RateDouble, RateHalve, RateMinus100, RateMinus200},
        y \in -1..MaxYears,
        r \in {RateZero, RateDouble, RateHalve, RateHalf, RateMinus100, RateMinus200} }

SavingsToCorpusFits(a) ==
    /\ a.annual_stepup \in {RateDouble, RateHalve} => a.years_to_retirement <= 2
    /\ a.annual_return \in {RateDouble, RateHalve} => a.years_to_retirement <= 2
    /\ a.annual_return = RateHalf => a.years_to_retirement <= 1
    /\ /\ a.annual_stepup \in {RateDouble, RateHalve}
       /\ a.annual_return \in {RateDouble, RateHalve}
       => a.years_to_retirement <= 1

MaxLen == 3

Cashflows == {-50, -1, 1, 100}

RECURSIVE SeqsUpTo(_, _)
SeqsUpTo(S, n) ==
    IF n = 0 THEN {<<>>}
    ELSE LET shorter == SeqsUpTo(S, n - 1)
         IN  shorter \cup {Append(q, x) : q \in shorter, x \in S}

CustomCashflowArgs ==
    { [fn |-> "custom_cashflow_calculation", cashflow_df |-> q, annual_return |-> r] :
        q \in SeqsUpTo(Cashflows, MaxLen),
        r \in {RateZero, RateDouble, RateHalve, RateHalf, RateMinus100, RateMinus200} }

\* ------------------------------------------- corpus_to_monthly_withdrawal

\* Lines 62-75: the rates and the closed-form solve.  solved.raises names
\* the exception the solve ends with, "" when it returns.
CorpusToWithdrawalSolve(starting_corpus, r, g, n) ==
    IF r = g
    THEN IF n = 0
         THEN [raises |-> "ZeroDivisionError", w |-> Zero]
         ELSE [raises |-> "", w |-> Div(Rat(starting_corpus), Rat(n))]
    ELSE LET denominator == Sub(r, g)
             growth == Add(One, g)
             discount == Add(One, r)
         IN  IF DivRaises(discount)
             THEN [raises |-> "ZeroDivisionError", w |-> Zero]
             ELSE LET ratio == Div(growth, discount)
                  IN  IF PowRaises(ratio, n)
                      THEN [raises |-> "ZeroDivisionError", w |-> Zero]
                      ELSE LET numerator == Sub(One, Pow(ratio, n))
                               pv_factor == Div(numerator, denominator)
                           IN  IF DivRaises(pv_factor)
                               THEN [raises |-> "ZeroDivisionError", w |-> Zero]
                               ELSE [raises |-> "",
                                     w |-> Div(Rat(starting_corpus), pv_factor)]

CorpusToWithdrawalCall(a) ==
    /\ pc = "idle"
    /\ args' = a
    /\ LET r == convert_annual_to_monthly_rate(a.annual_return)
           g == convert_annual_to_monthly_rate(a.annual_inflation)
           n == a.years * 12
           solved == CorpusToWithdrawalSolve(a.starting_corpus, r, g, n)
       IN  /\ monthly_return' = r
           /\ monthly_inflation' = g
           /\ total_months' = n
           /\ IF solved.raises # ""
              THEN /\ Raise(solved.raises)
                   /\ UNCHANGED <<monthly_withdrawal, current_corpus, current_withdrawal>>
              ELSE /\ pc' = "c2w_loop"
                   /\ exc' = ""
                   /\ monthly_withdrawal' = solved.w
                   /\ current_corpus' = Rat(a.starting_corpus)
                   /\ current_withdrawal' = solved.w
    /\ UNCHANGED <<monthly_stepup, current_sip, month, data, ret>>

\* Lines 84-87: the month's return, then the withdrawal.
WithdrawalBalance(corpus, withdrawal, r) == Sub(Mul(corpus, Add(One, r)), withdrawal)

\* Lines 89-96.
CorpusToWithdrawalRow(m, after, withdrawal, r) ==
    [Month |-> m,
     Year |-> Ceil(m, 12),
     StartingBalance |-> Add(after, withdrawal),
     MonthlyReturn |-> Mul(Add(after, withdrawal), r),
     WithdrawalAmount |-> withdrawal,
     EndingBalance |-> after]

\* Mutant: next month's withdrawal does not grow with inflation.
InflatedWithdrawalFlat(withdrawal, g) == withdrawal

\* Line 99: next month's withdrawal.
InflatedWithdrawal(withdrawal, g) == Mul(withdrawal, Add(One, g))

\* Lines 82-99: one month of the simulation.
CorpusToWithdrawalStep ==
    /\ pc = "c2w_loop"
    /\ month < total_months
    /\ month' = month + 1
    /\ LET after == WithdrawalBalance(current_corpus, current_withdrawal, monthly_return)
       IN  /\ current_corpus' = after
           /\ data' = Append(data, CorpusToWithdrawalRow(month + 1, after,
                                        current_withdrawal, monthly_return))
    /\ current_withdrawal' = InflatedWithdrawal(current_withdrawal, monthly_inflation)
    /\ UNCHANGED <<pc, exc, args, monthly_return, monthly_inflation, monthly_stepup,
                   total_months, monthly_withdrawal, current_sip, ret>>

\* Line 101.
CorpusToWithdrawalReturn ==
    /\ pc = "c2w_loop"
    /\ month >= total_months
    /\ pc' = "returned"
    /\ ret' = monthly_withdrawal
    /\ UNCHANGED <<exc, args, locals>>

\* ------------------------------------------ withdrawal_to_corpus_duration

MaxMonths == 1200

\* Lines 108-114.
WithdrawalToDurationCall(a) ==
    /\ pc = "idle"
    /\ args' = a
    /\ pc' = "w2d_loop"
    /\ monthly_return' = convert_annual_to_monthly_rate(a.annual_return)
    /\ monthly_inflation' = convert_annual_to_monthly_rate(a.annual_inflation)
    /\ current_corpus' = Rat(a.starting_corpus)
    /\ current_withdrawal' = Rat(a.monthly_withdrawal)
    /\ UNCHANGED <<exc, monthly_stepup, total_months, monthly_withdrawal,
                   current_sip, month, data, ret>>

\* Lines 128-135.
WithdrawalToDurationRow(m, corpus_after_return, actual_withdrawal, after, r) ==
    [Month |-> m,
     Year |-> Ceil(m, 12),
     StartingBalance |-> corpus_after_return,
     MonthlyReturn |-> Add(Sub(Add(after, actual_withdrawal), corpus_after_return),
                           Mul(corpus_after_return, r)),
     WithdrawalAmount |-> actual_withdrawal,
     EndingBalance |-> Max(Zero, after)]

\* Mutant: the month's return is not applied before the withdrawal.
CorpusAfterReturnSkipped(corpus, r) == corpus

\* Line 120.
CorpusAfterReturn(corpus, r) == Mul(corpus, Add(One, r))

\* Mutant: the scheduled withdrawal is taken whatever the balance.
ActualWithdrawalUnclamped(withdrawal, corpus_after_return) == withdrawal

\* Line 123.
ActualWithdrawal(withdrawal, corpus_after_return) ==
    Min(withdrawal, corpus_after_return)

\* Line 145: the safety check that ends the loop.
SafetyBreak(m) == m > MaxMonths

\* Lines 116-146: one pass of the while loop.  A break ends the loop (pc
\* "w2d_exit").
WithdrawalToDurationStep ==
    /\ pc = "w2d_loop"
    /\ Lt(Zero, current_corpus)
    /\ month' = month + 1
    /\ LET corpus_after_return == CorpusAfterReturn(current_corpus, monthly_return)
       IN  IF CmpRaises(current_withdrawal, corpus_after_return)
           THEN /\ Raise("TypeError")
                /\ UNCHANGED <<current_corpus, current_withdrawal, data>>
           ELSE LET actual_withdrawal ==
                        ActualWithdrawal(current_withdrawal, corpus_after_return)
                    after == Sub(corpus_after_return, actual_withdrawal)
                IN  /\ current_corpus' = after
                    /\ data' = Append(data,
                                 WithdrawalToDurationRow(month + 1, corpus_after_return,
                                     actual_withdrawal, after, monthly_return))
                    /\ exc' = exc
                    /\ IF Le(after, Zero)
                       THEN /\ pc' = "w2d_exit"
                            /\ UNCHANGED current_withdrawal
                       ELSE /\ current_withdrawal' =
                                   Mul(current_withdrawal, Add(One, monthly_inflation))
                            /\ pc' = IF SafetyBreak(month + 1) THEN "w2d_exit"
                                     ELSE "w2d_loop"
    /\ UNCHANGED <<args, monthly_return, monthly_inflation, monthly_stepup,
                   total_months, monthly_withdrawal, current_sip, ret>>

\* Line 116 with the condition false.
WithdrawalToDurationExit ==
    /\ pc = "w2d_loop"
    /\ ~Lt(Zero, current_corpus)
    /\ pc' = "w2d_exit"
    /\ UNCHANGED <<exc, args, locals, ret>>

\* Line 148.
WithdrawalToDurationReturn ==
    /\ pc = "w2d_exit"
    /\ pc' = "returned"
    /\ ret' = Rat(month)
    /\ UNCHANGED <<exc, args, locals>>

\* ---------------------------------------------- monthly_savings_to_corpus

\* Lines 157-163.
SavingsToCorpusCall(a) ==
    /\ pc = "idle"
    /\ args' = a
    /\ pc' = "sip_loop"
    /\ monthly_return' = convert_annual_to_monthly_rate(a.annual_return)
    /\ monthly_stepup' = convert_annual_to_monthly_rate(a.annual_stepup)
    /\ total_months' = a.years_to_retirement * 12
    /\ current_corpus' = Zero
    /\ current_sip' = Rat(a.monthly_sip)
    /\ UNCHANGED <<exc, monthly_inflation, monthly_withdrawal, current_withdrawal,
                   month, data, ret>>

\* Lines 172-179 (1 + r is not zero).
SavingsToCorpusRow(m, sip, after, r) ==
    [Month |-> m,
     Year |-> Ceil(m, 12),
     SIPAmount |-> sip,
     CorpusBeforeReturn |-> Sub(after, Div(Mul(after, r), Add(One, r))),
     MonthlyReturn |-> Div(Mul(after, r), Add(One, r)),
     CorpusAfterReturn |-> after]

\* Mutant: the step-up compounds monthly, at the converted monthly rate.
StepUpMonthly(m, sip, annual_stepup) ==
    Mul(sip, Add(One, convert_annual_to_monthly_rate(annual_stepup)))

\* Lines 181-183: the contribution of the month after month m.
StepUp(m, sip, annual_stepup) ==
    IF m % 12 = 0
    THEN Mul(sip, Add(One, Div(annual_stepup, Rat(100))))
    ELSE sip

\* Mutant: the month's return on the balance, then the contribution.
SavingsBalanceCompoundFirst(corpus, sip, r) == Add(Mul(corpus, Add(One, r)), sip)

\* Lines 167-170: the contribution, then the month's return on the whole.
SavingsBalance(corpus, sip, r) == Mul(Add(corpus, sip), Add(One, r))

\* Lines 165-183: one month.
SavingsToCorpusStep ==
    /\ pc = "sip_loop"
    /\ month < total_months
    /\ month' = month + 1
    /\ LET after == SavingsBalance(current_corpus, current_sip, monthly_return)
       IN  /\ current_corpus' = after
           /\ IF DivRaises(Add(One, monthly_return))
              THEN /\ Raise("ZeroDivisionError")
                   /\ UNCHANGED <<data, current_sip>>
              ELSE /\ data' = Append(data, SavingsToCorpusRow(month + 1, current_sip,
                                               after, monthly_return))
                   /\ current_sip' = StepUp(month + 1, current_sip, args.annual_stepup)
                   /\ UNCHANGED <<pc, exc>>
    /\ UNCHANGED <<args, monthly_return, monthly_inflation, monthly_stepup,
                   total_months, monthly_withdrawal, current_withdrawal, ret>>

\* Line 185.
SavingsToCorpusReturn ==
    /\ pc = "sip_loop"
    /\ month >= total_months
    /\ pc' = "returned"
    /\ ret' = current_corpus
    /\ UNCHANGED <<exc, args, locals>>

\* -------------------------------------------- custom_cashflow_calculation

\* Lines 192-195.
CustomCashflowCall(a) ==
    /\ pc = "idle"
    /\ args' = a
    /\ pc' = "ccf_loop"
    /\ monthly_return' = convert_annual_to_monthly_rate(a.annual_return)
    /\ current_corpus' = Zero
    /\ UNCHANGED <<exc, monthly_inflation, monthly_stepup, total_months,
                   monthly_withdrawal, current_withdrawal, current_sip, month,
                   data, ret>>

\* Lines 207-214.
CustomCashflowRow(m, cashflow, after, r) ==
    [Month |-> m,
     Year |-> Ceil(m, 12),
     Cashflow |-> cashflow,
     CorpusBeforeCashflow |-> Sub(after, cashflow),
     MonthlyReturn |-> Mul(Sub(after, cashflow), r),
     CorpusAfterCashflow |-> after]

\* Mutant: the cashflow, then the month's return on the whole.
CashflowBalanceCashflowFirst(corpus, cashflow, r) ==
    Mul(Add(corpus, cashflow), Add(One, r))

\* Lines 202-205: the month's return on the balance, then the cashflow.
CashflowBalance(corpus, cashflow, r) == Add(Mul(corpus, Add(One, r)), cashflow)

\* Lines 418 and 473-475: the index pandas gives the rows of a table read
\* from a one-column CSV or built from a list, 0 for the first row.
RangeIndex(df) == [i \in 1..Len(df) |-> i - 1]

\* Lines 197-214: the next row of cashflow_df.iterrows(); the variable month
\* counts the rows consumed, the row's Month is its index + 1 (line 198).
CustomCashflowStep ==
    /\ pc = "ccf_loop"
    /\ month < Len(args.cashflow_df)
    /\ month' = month + 1
    /\ LET index == RangeIndex(args.cashflow_df)[month + 1]
           cashflow == Rat(args.cashflow_df[month + 1])
           after == CashflowBalance(current_corpus, cashflow, monthly_return)
       IN  /\ current_corpus' = after
           /\ data' = Append(data, CustomCashflowRow(index + 1, cashflow, after,
                                                     monthly_return))
    /\ UNCHANGED <<pc, exc, args, monthly_return, monthly_inflation, monthly_stepup,
                   total_months, monthly_withdrawal, current_withdrawal,
                   current_sip, ret>>

\* Line 216.
CustomCashflowReturn ==
    /\ pc = "ccf_loop"
    /\ month >= Len(args.cashflow_df)
    /\ pc' = "returned"
    /\ ret' = current_corpus
    /\ UNCHANGED <<exc, args, locals>>

\* ------------------------------------------------------------------- next

Next ==
    \/ \E a \in CorpusToWithdrawalArgs :
          CorpusToWithdrawalFits(a) /\ CorpusToWithdrawalCall(a)
    \/ CorpusToWithdrawalStep
    \/ CorpusToWithdrawalReturn
    \/ \E a \in WithdrawalToDurationArgs :
          WithdrawalToDurationFits(a) /\ WithdrawalToDurationCall(a)
    \/ WithdrawalToDurationStep
    \/ WithdrawalToDurationExit
    \/ WithdrawalToDurationReturn
    \/ \E a \in SavingsToCorpusArgs :
          SavingsToCorpusFits(a) /\ SavingsToCorpusCall(a)
    \/ SavingsToCorpusStep
    \/ SavingsToCorpusReturn
    \/ \E a \in CustomCashflowArgs : CustomCashflowCall(a)
    \/ CustomCashflowStep
    \/ CustomCashflowReturn

Spec == Init /\ [][Next]_vars

\* ----------------------------------------------------------------- claims

\* The row appended last.  Rows are only ever appended, so every row of a
\* run is the last row of the state that appended it.
Latest == data[Len(data)]

InWithdrawalToDuration == args.fn = "withdrawal_to_corpus_duration"

InCorpusToWithdrawal == args.fn = "corpus_to_monthly_withdrawal"

InSavingsToCorpus == args.fn = "monthly_savings_to_corpus"

InCustomCashflow == args.fn = "custom_cashflow_calculation"

\* The inputs section 7 of the specification calls invalid: a corpus, a
\* horizon or a contribution <= 0, an empty schedule.
InvalidInput ==
    \/ InCorpusToWithdrawal /\ (args.starting_corpus <= 0 \/ args.years <= 0)
    \/ InWithdrawalToDuration /\ args.starting_corpus <= 0
    \/ InSavingsToCorpus /\ (args.years_to_retirement <= 0 \/ args.monthly_sip <= 0)
    \/ InCustomCashflow /\ args.cashflow_df = <<>>

\* An annual rate whose monthly rate is not a real effective rate.
RateAtMostMinus100(annual_rate) == Le(annual_rate, Rat(-100))

InvalidRate ==
    \/ /\ InCorpusToWithdrawal \/ InWithdrawalToDuration
       /\ \/ RateAtMostMinus100(args.annual_return)
          \/ RateAtMostMinus100(args.annual_inflation)
    \/ /\ InSavingsToCorpus
       /\ \/ RateAtMostMinus100(args.annual_return)
          \/ RateAtMostMinus100(args.annual_stepup)
    \/ InCustomCashflow /\ RateAtMostMinus100(args.annual_return)

\* C1: in withdrawal_to_corpus_duration, for a starting corpus > 0, a
\* withdrawal > 0 and a monthly return > -1, every row's Withdrawal Amount
\* is min(scheduled withdrawal, balance after return), so never more than
\* the balance after return; its Ending Balance is never negative; the
\* loop goes on only after a positive ending balance, and a run whose last
\* row ends at zero returns that row's month, every earlier row having
\* ended above zero.
C1_ClampedWithdrawal ==
    ( /\ InWithdrawalToDuration
      /\ args.starting_corpus > 0
      /\ args.monthly_withdrawal > 0
      /\ IsReal(monthly_return)
      /\ Lt(Rat(-1), monthly_return)
      /\ Len(data) >= 1 )
    => LET m == Len(data)
           before == IF m = 1 THEN Rat(args.starting_corpus)
                     ELSE data[m - 1].EndingBalance
           available == Mul(before, Add(One, monthly_return))
           scheduled == Mul(Rat(args.monthly_withdrawal),
                            PowNat(Add(One, monthly_inflation), m - 1))
       IN  /\ Latest.Month = m
           /\ Latest.WithdrawalAmount = Min(scheduled, available)
           /\ Le(Latest.WithdrawalAmount, available)
           /\ Le(Zero, Latest.EndingBalance)
           /\ pc = "w2d_loop" => Lt(Zero, Latest.EndingBalance)
           /\ pc = "returned" =>
                 /\ \A i \in 1..(m - 1) : Lt(Zero, data[i].EndingBalance)
                 /\ Latest.EndingBalance = Zero => ret = Rat(m)

\* C1 witness: a run of several months whose last withdrawal was cut to the
\* balance left and closed the corpus at zero.
C1_Witness ==
    /\ InWithdrawalToDuration
    /\ pc = "returned"
    /\ Len(data) >= 3
    /\ IsReal(monthly_return)
    /\ Lt(Zero, monthly_return)
    /\ Lt(Latest.WithdrawalAmount, current_withdrawal)
    /\ Lt(Zero, Latest.WithdrawalAmount)
    /\ Latest.EndingBalance = Zero

\* C2: withdrawal_to_corpus_duration never returns a duration above 1200,
\* and a run that is never depleted returns exactly 1200 with exactly 1200
\* rows, the last ending balance being > 0.
C2_DurationAtMost1200 ==
    (InWithdrawalToDuration /\ pc = "returned")
    => /\ Le(ret, Rat(1200))
       /\ Len(data) <= 1200
       /\ (Len(data) >= 1 /\ Lt(Zero, Latest.EndingBalance))
             => ret = Rat(1200) /\ Len(data) = 1200

\* C3 as stated: with withdrawal >= corpus > 0 and a positive annual
\* return, the duration is 1 month, with one row, whose Ending Balance is 0.
C3_WithdrawalAtLeastCorpus ==
    ( /\ InWithdrawalToDuration
      /\ pc = "returned"
      /\ args.starting_corpus > 0
      /\ args.monthly_withdrawal >= args.starting_corpus
      /\ Lt(Zero, args.annual_return) )
    => /\ ret = Rat(1)
       /\ Len(data) = 1
       /\ data[1].EndingBalance = Zero

\* C3 as amended: with a corpus > 0 and a positive annual return, a
\* withdrawal of at least the corpus grown by the first month's return
\* gives a duration of 1 month, one row and an Ending Balance of 0; a
\* withdrawal of at least the corpus but below the grown corpus leaves a
\* positive balance after month 1 and a duration above 1.
C3_WithdrawalAtLeastGrownCorpus ==
    ( /\ InWithdrawalToDuration
      /\ pc = "returned"
      /\ args.starting_corpus > 0
      /\ Lt(Zero, args.annual_return) )
    => LET grown == Mul(Rat(args.starting_corpus), Add(One, monthly_return))
           withdrawal == Rat(args.monthly_withdrawal)
       IN  /\ Le(grown, withdrawal)
                => /\ ret = Rat(1)
                   /\ Len(data) = 1
                   /\ data[1].EndingBalance = Zero
           /\ (args.monthly_withdrawal >= args.starting_corpus /\ Lt(withdrawal, grown))
                => /\ Len(data) >= 2
                   /\ Lt(Zero, data[1].EndingBalance)
                   /\ Lt(Rat(1), ret)

\* C3 witness: a withdrawal of twice the corpus at a monthly return of 100%
\* closes the corpus in month 1.
C3_Witness ==
    /\ InWithdrawalToDuration
    /\ pc = "returned"
    /\ args.starting_corpus > 0
    /\ Lt(Zero, args.annual_return)
    /\ Le(Mul(Rat(args.starting_corpus), Add(One, monthly_return)),
          Rat(args.monthly_withdrawal))
    /\ ret = Rat(1)
    /\ Len(data) = 1

\* C4: in corpus_to_monthly_withdrawal, for a corpus > 0, years > 0 and
\* real monthly rates, the simulation of the solved withdrawal over
\* years*12 months ends at an Ending Balance of zero (exactly, in the exact
\* arithmetic of the model), on the general branch and on the degenerate
\* one, where the withdrawal is corpus / (years*12).
C4_SolvedWithdrawalExhaustsCorpus ==
    ( /\ InCorpusToWithdrawal
      /\ pc = "returned"
      /\ args.starting_corpus > 0
      /\ args.years > 0
      /\ IsReal(monthly_return)
      /\ IsReal(monthly_inflation) )
    => /\ Len(data) = args.years * 12
       /\ Latest.EndingBalance = Zero
       /\ monthly_return = monthly_inflation
             => ret = Div(Rat(args.starting_corpus), Rat(args.years * 12))

\* C5: every projector rejects invalid input before its loop runs and
\* returns nothing: a corpus <= 0 (corpus_to_monthly_withdrawal,
\* withdrawal_to_corpus_duration), years <= 0 (corpus_to_monthly_withdrawal,
\* monthly_savings_to_corpus), a contribution <= 0
\* (monthly_savings_to_corpus), an empty schedule
\* (custom_cashflow_calculation).  Stated of calls whose rates are above
\* -100%.
C5_InvalidInputRejected ==
    (InvalidInput /\ ~InvalidRate) => /\ pc # "returned"
                    /\ month = 0
                    /\ data = <<>>

\* C6: every row satisfies the balance identity on its own fields: Ending
\* Balance = Starting Balance + Monthly Return - Withdrawal Amount
\* (corpus_to_monthly_withdrawal, withdrawal_to_corpus_duration), Corpus
\* After Return = Corpus Before Return + Monthly Return
\* (monthly_savings_to_corpus), Corpus After Cashflow = Corpus Before
\* Cashflow + Monthly Return + Cashflow (custom_cashflow_calculation).
\* Stated of calls with valid arguments.
C6_BalanceIdentity ==
    (Len(data) >= 1 /\ ~InvalidInput /\ ~InvalidRate)
    => /\ (InCorpusToWithdrawal \/ InWithdrawalToDuration)
             => Latest.EndingBalance =
                    Sub(Add(Latest.StartingBalance, Latest.MonthlyReturn),
                        Latest.WithdrawalAmount)
       /\ InSavingsToCorpus
             => Latest.CorpusAfterReturn =
                    Add(Latest.CorpusBeforeReturn, Latest.MonthlyReturn)
       /\ InCustomCashflow
             => Latest.CorpusAfterCashflow =
                    Add(Add(Latest.CorpusBeforeCashflow, Latest.MonthlyReturn),
                        Latest.Cashflow)

\* C7: in monthly_savings_to_corpus the SIP Amount of month m is
\* monthly_sip * (1 + stepup/100)^floor((m-1)/12): it changes only from a
\* month 12k to the month 12k+1, and for a positive contribution and a
\* positive step-up it strictly increases there.
C7_AnnualStepUp ==
    (InSavingsToCorpus /\ Len(data) >= 1)
    => LET m == Len(data)
           factor == Add(One, Div(args.annual_stepup, Rat(100)))
       IN  /\ Latest.Month = m
           /\ Latest.SIPAmount =
                  Mul(Rat(args.monthly_sip), PowNat(factor, (m - 1) \div 12))
           /\ m >= 2 =>
                 /\ Latest.SIPAmount # data[m - 1].SIPAmount => m % 12 = 1
                 /\ ( /\ m % 12 = 1
                      /\ args.monthly_sip > 0
                      /\ Lt(Zero, args.annual_stepup) )
                       => Lt(data[m - 1].SIPAmount, Latest.SIPAmount)

\* C7 witness: the contribution of month 13 is above that of months 1..12,
\* which are equal, and months 14..24 keep it.
C7_Witness ==
    /\ InSavingsToCorpus
    /\ Len(data) = 24
    /\ Lt(Zero, data[1].SIPAmount)
    /\ \A i \in 1..12 : data[i].SIPAmount = data[1].SIPAmount
    /\ Lt(data[12].SIPAmount, data[13].SIPAmount)
    /\ \A i \in 13..24 : data[i].SIPAmount = data[13].SIPAmount

\* C8: monthly_savings_to_corpus adds the month's contribution to the
\* balance (0 at the start) and then applies the month's return to the
\* whole; a call that returns ran exactly years*12 months and returns the
\* last row's Corpus After Return, which at a return and a step-up of 0% is
\* monthly_sip * 12 * years.  (The call ends early only by the
\* ZeroDivisionError of a return of -100%.)
C8_ContributionThenCompound ==
    InSavingsToCorpus
    => /\ (Len(data) >= 1 /\ IsReal(monthly_return))
             => LET m == Len(data)
                    before == IF m = 1 THEN Zero ELSE data[m - 1].CorpusAfterReturn
                IN  Latest.CorpusAfterReturn =
                        Mul(Add(before, Latest.SIPAmount), Add(One, monthly_return))
       /\ pc = "raised" => args.annual_return = RateMinus100
       /\ (pc = "returned" /\ args.years_to_retirement > 0)
             => /\ Len(data) = args.years_to_retirement * 12
                /\ ret = Latest.CorpusAfterReturn
                /\ (args.annual_return = Zero /\ args.annual_stepup = Zero)
                      => ret = Rat(args.monthly_sip * 12 * args.years_to_retirement)

\* C8 witness: three years of a contribution of 2 at 0% and 0% returned 72.
C8_Witness ==
    /\ InSavingsToCorpus
    /\ pc = "returned"
    /\ args.monthly_sip = 2
    /\ args.years_to_retirement = 3
    /\ args.annual_return = Zero
    /\ args.annual_stepup = Zero
    /\ Len(data) = 36
    /\ ret = Rat(72)

RECURSIVE FutureValue(_, _, _)
\* The sum over i in 1..k of q[i] * (1 + r)^(Len(q) - i).
FutureValue(q, r, k) ==
    IF k = 0 THEN Zero
    ELSE Add(FutureValue(q, r, k - 1),
             Mul(Rat(q[k]), PowNat(Add(One, r), Len(q) - k)))

RECURSIVE SumSeq(_, _)
SumSeq(q, k) == IF k = 0 THEN 0 ELSE SumSeq(q, k - 1) + q[k]

\* C9: custom_cashflow_calculation takes the schedule in order, one row per
\* entry: from a balance of 0, each month the balance becomes
\* balance * (1 + r) + cashflow_i, for cashflows of either sign; the value
\* returned is the sum of cashflow_i * (1 + r)^(N - i), and at a return of
\* 0% the plain sum of the cashflows.
C9_CompoundThenCashflow ==
    (InCustomCashflow /\ IsReal(monthly_return))
    => /\ Len(data) >= 1
             => LET m == Len(data)
                    before == IF m = 1 THEN Zero ELSE data[m - 1].CorpusAfterCashflow
                IN  /\ Latest.Month = m
                    /\ Latest.Cashflow = Rat(args.cashflow_df[m])
                    /\ Latest.CorpusAfterCashflow =
                           Add(Mul(before, Add(One, monthly_return)), Latest.Cashflow)
       /\ pc = "returned"
             => /\ Len(data) = Len(args.cashflow_df)
                /\ ret = FutureValue(args.cashflow_df, monthly_return,
                                     Len(args.cashflow_df))
                /\ args.annual_return = Zero
                      => ret = Rat(SumSeq(args.cashflow_df, Len(args.cashflow_df)))

\* C9 witness: the schedule 100, -50, 100 at a monthly return of 100%
\* returned 100*4 - 50*2 + 100 = 400.
C9_Witness ==
    /\ InCustomCashflow
    /\ pc = "returned"
    /\ args.cashflow_df = <<100, -50, 100>>
    /\ monthly_return = One
    /\ Len(data) = 3
    /\ ret = Rat(400)

\* C10: an annual rate of -100% or below is an invalid input that fails
\* fast: the call ends in an error, and no projector runs its loop with, or
\* writes into its rows, a rate derived from it.  Stated of calls whose
\* other arguments are valid.
C10_InvalidRateFailsFast ==
    (InvalidRate /\ ~InvalidInput) => /\ pc # "returned"
                   /\ month = 0
                   /\ data = <<>>

\* C11: corpus_to_monthly_withdrawal performs no depletion check.  For
\* years > 0 the solve of a call whose rates are above -100% returns, and a
\* call whose solve returned writes exactly n = years * 12 rows whatever the
\* balance does: the loop only ends at month n, the row of month k carries
\* the once-solved withdrawal times (1 + g)^(k-1), unclamped, the balance
\* after it is the balance before it times (1 + r) less that withdrawal, and
\* the scalar returned is the withdrawal of month 1.
C11_NoDepletionCheck ==
    (InCorpusToWithdrawal /\ args.years > 0)
    => LET n == args.years * 12
           m == Len(data)
       IN  /\ pc = "raised" => InvalidRate
           /\ pc # "raised"
                 => /\ m = month
                    /\ m <= n
                    /\ total_months = n
                    /\ pc = "returned" => m = n /\ ret = data[1].WithdrawalAmount
                    /\ monthly_withdrawal =
                           CorpusToWithdrawalSolve(args.starting_corpus, monthly_return,
                                                   monthly_inflation, n).w
           /\ (pc # "raised" /\ m >= 1 /\ ~InvalidRate)
                 => LET before == IF m = 1 THEN Rat(args.starting_corpus)
                                  ELSE data[m - 1].EndingBalance
                    IN  /\ Latest.WithdrawalAmount =
                               Mul(monthly_withdrawal,
                                   Pow(Add(One, monthly_inflation), m - 1))
                        /\ Latest.EndingBalance =
                               Sub(Mul(before, Add(One, monthly_return)),
                                   Latest.WithdrawalAmount)

\* C11 witness: at a return and an inflation of -50% a month the balance
\* reaches zero in month 6 and is negative from month 7 on, and the call
\* returned 12 rows with the withdrawal of month 12 above its balance.
C11_Witness ==
    /\ InCorpusToWithdrawal
    /\ pc = "returned"
    /\ args.years = 1
    /\ args.starting_corpus = 1
    /\ Len(data) = 12
    /\ data[6].EndingBalance = Zero
    /\ Lt(data[7].EndingBalance, Zero)
    /\ Lt(data[12].StartingBalance, data[12].WithdrawalAmount)
    /\ Lt(data[12].WithdrawalAmount, data[1].WithdrawalAmount)
    /\ ret = data[1].WithdrawalAmount

\* The year of month k: the months 1..12 are year 1, 13..24 year 2, ...
YearOf(k) == IF k % 12 = 0 THEN k \div 12 ELSE k \div 12 + 1

\* The withdrawal scheduled for month k of withdrawal_to_corpus_duration:
\* the entered one, grown by the monthly inflation k - 1 times.
ScheduledWithdrawal(k) ==
    Mul(Rat(args.monthly_withdrawal), Pow(Add(One, monthly_inflation), k - 1))

====
